---- MODULE Spec2Model ----
(***************************************************************************)
(* SingleFlight (src/src/singleflight.py): threads calling                  *)
(* SingleFlight.call on one shared instance.  One action per statement     *)
(* of call that touches shared state (the lock, the dict self.m, the       *)
(* CallLock objects), so that every interleaving of the threads is a       *)
(* behaviour of the model.                                                 *)
(***************************************************************************)
EXTENDS Integers, Sequences, FiniteSets, TLC

\* ---------------------------------------------------------------- bounds
\* Total number of calls to SingleFlight.call made in a behaviour.
MaxCalls == 3

\* The calling threads.
Threads == {"t1", "t2", "t3"}

\* ---------------------------------------------------------------- values
\* Python's None.
None == "None"

\* Arguments a caller may pass as `key`: an ordinary string, the empty
\* string, and an object that is not a str.  A key is <<type, value>>.
Keys == {<<"str", "a">>, <<"str", "">>, <<"int", "7">>}
EmptyKey == <<"str", "">>

\* Arguments a caller may pass as `fn`: a function and a non-callable.
Fns == {<<"function", "op">>, <<"int", "0">>}

\* What the operation fn may return, and the Exception it may raise.
Vals == {"v1", "v2"}
Errs == {"e1"}

\* A failure of fn outside the Exception class (KeyboardInterrupt, SystemExit).
BaseExc == "KeyboardInterrupt"

\* A check that also demands a non-empty string.
IsStr_nonEmpty(k) == k[1] = "str" /\ k[2] # ""

\* isinstance(key, str)
IsStr(k) == k[1] = "str"

\* isinstance(fn, Callable)
IsCallable(f) == f[1] = "function"

\* Truth value of a CallLock.err slot, as `if self.m[key].err:` tests it:
\* None is false, an exception instance is true.
Truthy(x) == x # None

\* How a call ends: <<"return", value>> or <<"raise", exception>>.
Return(v) == <<"return", v>>
Raise(e) == <<"raise", e>>
KeyTypeError == Raise("TypeError: Key should be a str")
FnTypeError == Raise("TypeError: fn should be a callable")
RaiseNoneError == Raise("TypeError: exceptions must derive from BaseException")
KeyError == Raise("KeyError")
Running == <<"running", None>>

\* ----------------------------------------------------------------- state
VARIABLES
  lock,    \* self.lock: the thread holding it, or None
  m,       \* self.m: function from the registered keys to CallLock ids
  ev,      \* ev[c]: CallLock c's event is set
  res,     \* res[c]: CallLock c's res slot
  err,     \* err[c]: CallLock c's err slot
  pc,      \* pc[t]: where thread t is in call
  key,     \* key[t]: the key argument of t's call
  fn,      \* fn[t]: the fn argument of t's call
  cl,      \* cl[t]: the leader's local variable cl (0: unbound)
  w,       \* w[t]: the CallLock whose event t waits on at line 66 (0: none)
  ret,     \* ret[t]: how t's call ended
  att,     \* att[t]: the CallLock registered when t found its key in self.m
  ran,     \* ran[t]: invocations of fn made by t's current call
  calls,   \* calls[c]: invocations of fn made for CallLock c
  ncalls   \* number of calls to SingleFlight.call started so far

vars == <<lock, m, ev, res, err, pc, key, fn, cl, w, ret, att, ran, calls, ncalls>>

shared == <<lock, m, ev, res, err>>

\* SingleFlight.__init__, and every thread outside call.
Init ==
  /\ lock = None
  /\ m = <<>>
  /\ ev = <<>>
  /\ res = <<>>
  /\ err = <<>>
  /\ pc = [t \in Threads |-> "idle"]
  /\ key = [t \in Threads |-> <<"str", "a">>]
  /\ fn = [t \in Threads |-> <<"function", "op">>]
  /\ cl = [t \in Threads |-> 0]
  /\ w = [t \in Threads |-> 0]
  /\ ret = [t \in Threads |-> Running]
  /\ att = [t \in Threads |-> 0]
  /\ ran = [t \in Threads |-> 0]
  /\ calls = <<>>
  /\ ncalls = 0

\* A membership test that never finds the key.
KeyInM_never(k) == FALSE

\* `key in self.m`
KeyInM(k) == k \in DOMAIN m

\* self.m[key] = c
SetItem(k, c) == [x \in DOMAIN m \cup {k} |-> IF x = k THEN c ELSE m[x]]

\* del(self.m[key])
DelItem(k) == [x \in DOMAIN m \ {k} |-> m[x]]

\* The call of thread t ends with outcome o.
End(t, o) ==
  /\ pc' = [pc EXCEPT ![t] = "done"]
  /\ ret' = [ret EXCEPT ![t] = o]

Goto(t, l) ==
  /\ pc' = [pc EXCEPT ![t] = l]
  /\ UNCHANGED ret

\* Call without lines 55-56: fn is not checked.
Call_noFnCheck(t, k, f) ==
  /\ pc[t] \in {"idle", "done"}
  /\ ncalls < MaxCalls
  /\ ncalls' = ncalls + 1
  /\ key' = [key EXCEPT ![t] = k]
  /\ fn' = [fn EXCEPT ![t] = f]
  /\ cl' = [cl EXCEPT ![t] = 0]
  /\ w' = [w EXCEPT ![t] = 0]
  /\ att' = [att EXCEPT ![t] = 0]
  /\ ran' = [ran EXCEPT ![t] = 0]
  /\ pc' = [pc EXCEPT ![t] = IF k[1] = "str" THEN "acquire" ELSE "done"]
  /\ ret' = [ret EXCEPT ![t] = IF k[1] # "str" THEN KeyTypeError ELSE Running]
  /\ UNCHANGED <<lock, m, ev, res, err, calls>>

\* Lines 45-56: a thread enters call(fn, key) and the arguments are checked.
Call(t, k, f) ==
  /\ pc[t] \in {"idle", "done"}
  /\ ncalls < MaxCalls
  /\ ncalls' = ncalls + 1
  /\ key' = [key EXCEPT ![t] = k]
  /\ fn' = [fn EXCEPT ![t] = f]
  /\ cl' = [cl EXCEPT ![t] = 0]
  /\ w' = [w EXCEPT ![t] = 0]
  /\ att' = [att EXCEPT ![t] = 0]
  /\ ran' = [ran EXCEPT ![t] = 0]
  /\ pc' = [pc EXCEPT ![t] =
              IF IsStr(k) /\ IsCallable(f) THEN "acquire" ELSE "done"]
  /\ ret' = [ret EXCEPT ![t] =
              IF ~IsStr(k) THEN KeyTypeError
              ELSE IF ~IsCallable(f) THEN FnTypeError
              ELSE Running]
  /\ UNCHANGED <<shared, calls>>

\* Line 60: self.lock.acquire(True)
Acquire(t) ==
  /\ pc[t] = "acquire"
  /\ lock = None
  /\ lock' = t
  /\ Goto(t, "lookup")
  /\ UNCHANGED <<m, ev, res, err, key, fn, cl, w, att, ran, calls, ncalls>>

\* FollowerRelease falling through to the leader's code: the caller that
\* found the key binds cl to the registered CallLock and goes on to line 76.
FollowerRelease_fallthrough(t) ==
  /\ pc[t] = "lookup"
  /\ KeyInM(key[t])
  /\ att' = [att EXCEPT ![t] = m[key[t]]]
  /\ cl' = [cl EXCEPT ![t] = m[key[t]]]
  /\ lock' = None
  /\ Goto(t, "fn_call")
  /\ UNCHANGED <<m, ev, res, err, key, fn, w, ran, calls, ncalls>>

\* Lines 61-65: the key is in self.m; release the lock.
FollowerRelease(t) ==
  /\ pc[t] = "lookup"
  /\ KeyInM(key[t])
  /\ att' = [att EXCEPT ![t] = m[key[t]]]
  /\ lock' = None
  /\ Goto(t, "f_wait_get")
  /\ UNCHANGED <<m, ev, res, err, key, fn, cl, w, ran, calls, ncalls>>

\* LeaderInsert without line 73: the CallLock is never put into self.m.
LeaderInsert_unregistered(t) ==
  /\ pc[t] = "lookup"
  /\ ~KeyInM(key[t])
  /\ ev' = Append(ev, FALSE)
  /\ res' = Append(res, None)
  /\ err' = Append(err, None)
  /\ calls' = Append(calls, 0)
  /\ cl' = [cl EXCEPT ![t] = Len(ev) + 1]
  /\ lock' = None
  /\ Goto(t, "fn_call")
  /\ UNCHANGED <<m, key, fn, w, att, ran, ncalls>>

\* LeaderInsert without line 74: the lock is still held when fn runs.
LeaderInsert_keepLock(t) ==
  /\ pc[t] = "lookup"
  /\ ~KeyInM(key[t])
  /\ ev' = Append(ev, FALSE)
  /\ res' = Append(res, None)
  /\ err' = Append(err, None)
  /\ calls' = Append(calls, 0)
  /\ cl' = [cl EXCEPT ![t] = Len(ev) + 1]
  /\ m' = SetItem(key[t], Len(ev) + 1)
  /\ Goto(t, "fn_call")
  /\ UNCHANGED <<lock, key, fn, w, att, ran, ncalls>>

\* Lines 61, 72-74: the key is not in self.m; create a CallLock, register
\* it under the key, release the lock.
LeaderInsert(t) ==
  /\ pc[t] = "lookup"
  /\ ~KeyInM(key[t])
  /\ ev' = Append(ev, FALSE)
  /\ res' = Append(res, None)
  /\ err' = Append(err, None)
  /\ calls' = Append(calls, 0)
  /\ cl' = [cl EXCEPT ![t] = Len(ev) + 1]
  /\ m' = SetItem(key[t], Len(ev) + 1)
  /\ lock' = None
  /\ Goto(t, "fn_call")
  /\ UNCHANGED <<key, fn, w, att, ran, ncalls>>

\* Line 66, first half: self.m[key], evaluated without the lock.
FollowerWaitGet(t) ==
  /\ pc[t] = "f_wait_get"
  /\ IF KeyInM(key[t])
       THEN /\ w' = [w EXCEPT ![t] = m[key[t]]]
            /\ Goto(t, "f_wait")
       ELSE /\ End(t, KeyError)
            /\ UNCHANGED w
  /\ UNCHANGED <<shared, key, fn, cl, att, ran, calls, ncalls>>

\* Line 66, second half: .ev.wait() on the object just fetched.
FollowerWait(t) ==
  /\ pc[t] = "f_wait"
  /\ ev[w[t]]
  /\ Goto(t, "f_err")
  /\ UNCHANGED <<shared, key, fn, cl, w, att, ran, calls, ncalls>>

\* Line 68: if self.m[key].err
FollowerTestErr(t) ==
  /\ pc[t] = "f_err"
  /\ IF ~KeyInM(key[t]) THEN End(t, KeyError)
     ELSE IF Truthy(err[m[key[t]]]) THEN Goto(t, "f_raise")
     ELSE Goto(t, "f_ret")
  /\ UNCHANGED <<shared, key, fn, cl, w, att, ran, calls, ncalls>>

\* Line 69: raise self.m[key].err
FollowerRaise(t) ==
  /\ pc[t] = "f_raise"
  /\ IF ~KeyInM(key[t]) THEN End(t, KeyError)
     ELSE IF err[m[key[t]]] = None THEN End(t, RaiseNoneError)
     ELSE End(t, Raise(err[m[key[t]]]))
  /\ UNCHANGED <<shared, key, fn, cl, w, att, ran, calls, ncalls>>

\* Line 70: return self.m[key].res
FollowerReturn(t) ==
  /\ pc[t] = "f_ret"
  /\ IF ~KeyInM(key[t]) THEN End(t, KeyError)
     ELSE End(t, Return(res[m[key[t]]]))
  /\ UNCHANGED <<shared, key, fn, cl, w, att, ran, calls, ncalls>>

\* Line 77: the leader invokes fn(*args, **kwargs).
FnStart(t) ==
  /\ pc[t] = "fn_call"
  /\ ran' = [ran EXCEPT ![t] = @ + 1]
  /\ calls' = [calls EXCEPT ![cl[t]] = @ + 1]
  /\ Goto(t, "fn_run")
  /\ UNCHANGED <<shared, key, fn, cl, w, att, ncalls>>

\* Lines 77-78: fn returns v.
FnReturn(t, v) ==
  /\ pc[t] = "fn_run"
  /\ res' = [res EXCEPT ![cl[t]] = v]
  /\ err' = [err EXCEPT ![cl[t]] = None]
  /\ Goto(t, "set")
  /\ UNCHANGED <<lock, m, ev, key, fn, cl, w, att, ran, calls, ncalls>>

FnRaise_retry(t, e) ==
  /\ pc[t] = "fn_run"
  /\ res' = [res EXCEPT ![cl[t]] = None]
  /\ err' = [err EXCEPT ![cl[t]] = e]
  /\ Goto(t, "fn_call")
  /\ UNCHANGED <<lock, m, ev, key, fn, cl, w, att, ran, calls, ncalls>>

\* Lines 79-81: fn raises the Exception e.
FnRaise(t, e) ==
  /\ pc[t] = "fn_run"
  /\ res' = [res EXCEPT ![cl[t]] = None]
  /\ err' = [err EXCEPT ![cl[t]] = e]
  /\ Goto(t, "set")
  /\ UNCHANGED <<lock, m, ev, key, fn, cl, w, att, ran, calls, ncalls>>

\* Lines 76-81: fn raises a BaseException that is no Exception; the except
\* clause does not match and the exception leaves call.
FnAbort(t) ==
  /\ pc[t] = "fn_run"
  /\ End(t, Raise(BaseExc))
  /\ UNCHANGED <<shared, key, fn, cl, w, att, ran, calls, ncalls>>

\* Line 87: cl.ev.set()
SetEvent(t) ==
  /\ pc[t] = "set"
  /\ ev' = [ev EXCEPT ![cl[t]] = TRUE]
  /\ Goto(t, "sleep")
  /\ UNCHANGED <<lock, m, res, err, key, fn, cl, w, att, ran, calls, ncalls>>

\* Line 88: sleep(0.01) returns.
Sleep(t) ==
  /\ pc[t] = "sleep"
  /\ Goto(t, "evict_acquire")
  /\ UNCHANGED <<shared, key, fn, cl, w, att, ran, calls, ncalls>>

\* Line 92: with self.lock (enter)
EvictAcquire(t) ==
  /\ pc[t] = "evict_acquire"
  /\ lock = None
  /\ lock' = t
  /\ Goto(t, "evict")
  /\ UNCHANGED <<m, ev, res, err, key, fn, cl, w, att, ran, calls, ncalls>>

\* Evict without line 93: the lock is taken and released, nothing deleted.
Evict_noDel(t) ==
  /\ pc[t] = "evict"
  /\ lock' = None
  /\ Goto(t, "l_ret")
  /\ UNCHANGED <<m, ev, res, err, key, fn, cl, w, att, ran, calls, ncalls>>

\* Lines 92-93: del(self.m[key]), and the with-block releases the lock.
Evict(t) ==
  /\ pc[t] = "evict"
  /\ lock' = None
  /\ IF KeyInM(key[t])
       THEN /\ m' = DelItem(key[t])
            /\ Goto(t, "l_ret")
       ELSE /\ End(t, KeyError)
            /\ UNCHANGED m
  /\ UNCHANGED <<ev, res, err, key, fn, cl, w, att, ran, calls, ncalls>>

\* LeaderReturn that empties the slots of its CallLock before leaving.
LeaderReturn_clears(t) ==
  /\ pc[t] = "l_ret"
  /\ IF err[cl[t]] # None THEN End(t, Raise(err[cl[t]]))
     ELSE End(t, Return(res[cl[t]]))
  /\ res' = [res EXCEPT ![cl[t]] = None]
  /\ err' = [err EXCEPT ![cl[t]] = None]
  /\ UNCHANGED <<lock, m, ev, key, fn, cl, w, att, ran, calls, ncalls>>

\* Lines 95-97: the leader raises cl.err or returns cl.res.
LeaderReturn(t) ==
  /\ pc[t] = "l_ret"
  /\ IF err[cl[t]] # None THEN End(t, Raise(err[cl[t]]))
     ELSE End(t, Return(res[cl[t]]))
  /\ UNCHANGED <<shared, key, fn, cl, w, att, ran, calls, ncalls>>

\* functools.partial(func, *args): the callable and its frozen arguments.
Partial(func, args) == <<"partial", func, args>>

\* Lines 102-103: wrapper(*args, **kwargs) builds partial(self.call, fn, *args).
wrapper(f, args) == Partial("call", <<f>> \o args)

\* wrap returning the inner function itself (`return wrapper`).
wrap_returnsWrapper(f) == <<"function", "wrapper", f>>

\* Lines 99-105: wrap(fn) returns wrapper(), the result of calling the
\* inner function with no arguments.
wrap(f) == wrapper(f, <<>>)

\* A caller's invocation that ends at once: it returns the object o, or
\* raises, without entering call.
EndsAtOnce(t, o) ==
  /\ pc[t] \in {"idle", "done"}
  /\ ncalls < MaxCalls
  /\ ncalls' = ncalls + 1
  /\ cl' = [cl EXCEPT ![t] = 0]
  /\ w' = [w EXCEPT ![t] = 0]
  /\ att' = [att EXCEPT ![t] = 0]
  /\ ran' = [ran EXCEPT ![t] = 0]
  /\ End(t, o)
  /\ UNCHANGED <<shared, calls, key, fn>>

\* Thread t invokes the object obj with the positional arguments args:
\* a partial of self.call prepends its frozen arguments and enters
\* call(fn, key) (a TypeError if an argument is missing); the inner
\* function wrapper returns a partial.
Invoke(obj, t, args) ==
  IF obj[1] = "partial"
    THEN LET all == obj[3] \o args
         IN  IF Len(all) >= 2
               THEN Call(t, all[2], all[1])
               ELSE EndsAtOnce(t, Raise("TypeError: call() missing argument"))
    ELSE EndsAtOnce(t, Return("partial"))

\* Lines 99-105, then 45-56: a thread invokes wrap(fn) with a key.
CallWrapped(t, k, f) == Invoke(wrap(f), t, <<k>>)

\* One step of thread t.
Step(t) ==
  \/ \E k \in Keys, f \in Fns : Call(t, k, f)
  \/ \E k \in Keys, f \in Fns : CallWrapped(t, k, f)
  \/ Acquire(t)
  \/ FollowerRelease(t)
  \/ LeaderInsert(t)
  \/ FollowerWaitGet(t)
  \/ FollowerWait(t)
  \/ FollowerTestErr(t)
  \/ FollowerRaise(t)
  \/ FollowerReturn(t)
  \/ FnStart(t)
  \/ \E v \in Vals : FnReturn(t, v)
  \/ \E e \in Errs : FnRaise(t, e)
  \/ FnAbort(t)
  \/ SetEvent(t)
  \/ Sleep(t)
  \/ EvictAcquire(t)
  \/ Evict(t)
  \/ LeaderReturn(t)

Next == \E t \in Threads : Step(t)

Spec == Init /\ [][Next]_vars

\* ------------------------------------------------------------- scheduling
\* The operation registered under HungKey may run forever (the code has no
\* timeout or cancellation); operations under other keys terminate.
HungKey == <<"str", "a">>

\* The steps of call that the thread scheduler, the lock and the event
\* eventually let a thread take: everything except entering call (the
\* caller's choice) and the end of an operation that may hang.
Progress(t) ==
  \/ Acquire(t)
  \/ FollowerRelease(t)
  \/ LeaderInsert(t)
  \/ FollowerWaitGet(t)
  \/ FollowerWait(t)
  \/ FollowerTestErr(t)
  \/ FollowerRaise(t)
  \/ FollowerReturn(t)
  \/ FnStart(t)
  \/ (key[t] # HungKey /\ \E v \in Vals : FnReturn(t, v))
  \/ (key[t] # HungKey /\ \E e \in Errs : FnRaise(t, e))
  \/ (key[t] # HungKey /\ FnAbort(t))
  \/ SetEvent(t)
  \/ Sleep(t)
  \/ EvictAcquire(t)
  \/ Evict(t)
  \/ LeaderReturn(t)

\* The liveness specification runs two of the threads (the third never
\* calls): one may lead the hung key while the other calls.
FairThreads == {"t1", "t2"}

FairNext == \E t \in FairThreads : Step(t)

FairSpec ==
  Init /\ [][FairNext]_vars /\ \A t \in FairThreads : WF_vars(Progress(t))

\* ------------------------------------------------------------ vocabulary
\* The CallLock objects created so far.
CallLocks == 1..Len(ev)

\* Thread t is the leader (it created cl[t]) / a follower (it found att[t]).
IsLeader(t) == cl[t] # 0
IsFollower(t) == att[t] # 0

\* The execution thread t's call belongs to.
Exec(t) == IF IsLeader(t) THEN cl[t] ELSE att[t]

\* The outcome CallLock c carries: its failure if one is stored, else its result.
Outcome(c) == IF err[c] # None THEN Raise(err[c]) ELSE Return(res[c])

\* Thread t is between the start and the end of fn.
InFn(t) == pc[t] = "fn_run"

\* CallLock c is the one registered under some key.
Registered(c) == \E k \in DOMAIN m : m[k] = c

ArgErrors == {KeyTypeError, FnTypeError}

\* ---------------------------------------------------------------- claims

\* C1: for every key, at most one invocation of fn is in progress: two
\* threads are never both between the start and the end of fn with the
\* same key.
OneInFlightPerKey ==
  \A t1, t2 \in Threads :
    (t1 # t2 /\ InFn(t1) /\ InFn(t2)) => key[t1] # key[t2]

\* A leader is inside fn while another thread called with the same key and
\* was turned into a follower of that execution.
OneInFlightWitness ==
  \E t1, t2 \in Threads :
    /\ t1 # t2
    /\ InFn(t1)
    /\ key[t2] = key[t1]
    /\ att[t2] = cl[t1]
    /\ pc[t2] = "f_wait"

\* C2: callers that find the first caller's CallLock registered never
\* invoke fn; the operation is invoked once for that CallLock, by the one
\* thread that created it.
SingleExecution ==
  /\ \A c \in CallLocks : calls[c] <= 1
  /\ \A c \in CallLocks : ev[c] => calls[c] = 1
  /\ \A t \in Threads : IsFollower(t) => (ran[t] = 0 /\ ~IsLeader(t))
  /\ \A t1, t2 \in Threads : (IsLeader(t1) /\ cl[t1] = cl[t2]) => t1 = t2

\* Three callers of one key: the leader and two followers of its CallLock
\* have all finished, and fn ran once.
SingleExecutionWitness ==
  \E l, f1, f2 \in Threads :
    /\ f1 # f2
    /\ IsLeader(l) /\ att[f1] = cl[l] /\ att[f2] = cl[l]
    /\ pc[l] = "done" /\ pc[f1] = "done" /\ pc[f2] = "done"
    /\ calls[cl[l]] = 1 /\ ran[l] = 1

\* C3: when the execution a call belongs to returned v, the call (of the
\* leader or of a follower that found that CallLock registered) returns v.
SharedResult ==
  \A t \in Threads :
    (pc[t] = "done" /\ Exec(t) # 0 /\ ev[Exec(t)] /\ err[Exec(t)] = None)
      => ret[t] = Return(res[Exec(t)])

\* C4: when the execution a call belongs to raised e, the call (of the
\* leader or of a follower that found that CallLock registered) raises e.
SharedFailure ==
  \A t \in Threads :
    (pc[t] = "done" /\ Exec(t) # 0 /\ ev[Exec(t)] /\ err[Exec(t)] # None)
      => ret[t] = Raise(err[Exec(t)])

\* C5: a follower ends only with the outcome of the CallLock it found
\* registered, whatever happens to the registry afterwards; never with
\* another error.
FollowerUnaffectedByRemoval ==
  \A t \in Threads :
    (pc[t] = "done" /\ IsFollower(t)) => ret[t] = Outcome(att[t])

\* C6: whatever the state of HungKey (its operation may run forever), a
\* call with another key gets the registry lock, and a leader of another
\* key runs its operation and ends its call.
KeyIndependence ==
  \A t \in Threads :
    /\ (pc[t] = "acquire" /\ key[t] # HungKey) ~> (pc[t] = "lookup")
    /\ (IsLeader(t) /\ key[t] # HungKey /\ pc[t] # "done") ~> (pc[t] = "done")

\* The operation under HungKey is still running, and a call with another
\* key that started its execution later has returned its own result.
KeyIndependenceWitness ==
  \E t1, t2 \in Threads :
    /\ InFn(t1) /\ key[t1] = HungKey
    /\ key[t2] # HungKey
    /\ IsLeader(t2) /\ cl[t2] > cl[t1]
    /\ pc[t2] = "done"
    /\ ret[t2] = Return(res[cl[t2]])
    /\ res[cl[t2]] \in Vals

\* A leader whose call ended by return or by the captured failure.
LeaderEnded(t) == pc[t] = "done" /\ IsLeader(t) /\ ret[t] # Raise(BaseExc)

\* C7: once a leader has removed its CallLock the key is free again, and a
\* call that finds the key absent is a leader with a CallLock of its own:
\* it invokes fn once and ends with that invocation's outcome, not with
\* the outcome of an earlier execution of the key.
ReentrantAfterCompletion ==
  \A t \in Threads :
    /\ (pc[t] = "l_ret" \/ LeaderEnded(t)) => ~Registered(cl[t])
    /\ LeaderEnded(t) => (ret[t] = Outcome(cl[t]) /\ ran[t] = 1 /\ calls[cl[t]] = 1)
    /\ \A u \in Threads : (IsLeader(t) /\ t # u) => cl[u] # cl[t]

\* An execution of a key failed and was removed; a later call with the same
\* key ran fn again and returned the new result.
ReentrantWitness ==
  \E t1, t2 \in Threads :
    /\ t1 # t2 /\ key[t1] = key[t2]
    /\ LeaderEnded(t1) /\ LeaderEnded(t2)
    /\ cl[t1] < cl[t2]
    /\ ret[t1] = Raise("e1")
    /\ ret[t2] = Return("v1")

\* Thread t's current call has a key that is no str or an fn that is not callable.
InvalidArgs(t) == pc[t] # "idle" /\ (key[t][1] # "str" \/ fn[t][1] # "function")

\* C8: a call with a key that is no str or an fn that is not callable ends
\* with the TypeError of the argument check: the step that rejects it
\* changes neither the lock, the registry nor any CallLock, the call never
\* holds the lock, registers nothing and never invokes fn; and no call
\* with valid arguments ends with that error.
InvalidInputRejected ==
  /\ [](\A t \in Threads :
          /\ InvalidArgs(t) =>
               /\ pc[t] = "done"
               /\ ret[t] = (IF key[t][1] # "str" THEN KeyTypeError ELSE FnTypeError)
               /\ lock # t /\ cl[t] = 0 /\ att[t] = 0 /\ ran[t] = 0
          /\ (pc[t] # "idle" /\ ~InvalidArgs(t)) => ret[t] \notin ArgErrors)
  /\ [](\A k \in DOMAIN m : k[1] = "str")
  /\ [][\A t \in Threads :
          (pc[t] \in {"idle", "done"} /\ ncalls' # ncalls /\ InvalidArgs(t)')
            => UNCHANGED <<shared, calls>>]_vars

\* A call with a non-str key and a call with a non-callable fn were both
\* rejected while the key of the second one was registered by a valid call.
InvalidInputWitness ==
  \E t1, t2, t3 \in Threads :
    /\ ret[t1] = KeyTypeError /\ pc[t1] = "done"
    /\ ret[t2] = FnTypeError /\ pc[t2] = "done"
    /\ key[t2] \in DOMAIN m
    /\ InFn(t3) /\ key[t3] = key[t2]

\* C9 as stated: a call with key "" fails with the argument-check error,
\* registers nothing under "" and does not invoke fn.
EmptyKeyRejected ==
  /\ EmptyKey \notin DOMAIN m
  /\ \A t \in Threads :
       (pc[t] # "idle" /\ key[t] = EmptyKey)
         => (pc[t] = "done" /\ ret[t] \in ArgErrors /\ ran[t] = 0)

\* C9 amended: the empty string is a str and a valid key: a call with key
\* "" and a callable fn is not rejected by the argument check; it goes on
\* to the registry, and as a leader it registers its CallLock under "".
EmptyKeyAccepted ==
  \A t \in Threads :
    (pc[t] # "idle" /\ key[t] = EmptyKey /\ IsCallable(fn[t]))
      => /\ ret[t] \notin ArgErrors
         /\ (pc[t] \in {"fn_call", "fn_run", "set", "sleep", "evict_acquire", "evict"}
               => (EmptyKey \in DOMAIN m /\ m[EmptyKey] = cl[t]))

\* A call with key "" is the leader, registered under "", and running fn.
EmptyKeyWitness ==
  \E t \in Threads :
    /\ key[t] = EmptyKey
    /\ InFn(t)
    /\ EmptyKey \in DOMAIN m /\ m[EmptyKey] = cl[t]

\* CallLock c was left behind by an fn that raised outside Exception: fn
\* was invoked for it, its event is not set and its leader is gone.
Abandoned(c) ==
  /\ calls[c] = 1
  /\ ~ev[c]
  /\ \A t \in Threads : ~(cl[t] = c /\ pc[t] \in {"fn_run", "set"})

\* C10: when the operation of an execution has terminated (its outcome is
\* stored and the event set), the leader and every follower that found its
\* CallLock registered eventually end their call, and a leader that ended
\* has left no CallLock of its own in the registry.  Stated for the runs in
\* which every failure of fn is an Exception (no CallLock is abandoned).
TerminationAndRelease ==
  /\ \A t \in Threads : \A c \in 1..MaxCalls :
       (pc[t] # "done" /\ Exec(t) = c /\ ev[c])
         ~> (pc[t] = "done" \/ \E d \in CallLocks : Abandoned(d))
  /\ [](\A t \in Threads : LeaderEnded(t) => ~Registered(cl[t]))

\* C11: the adapter forwards: building wrap(fn) is a computation on fn
\* alone, and a step that starts an invocation is the invocation of
\* wrap(fn) with a key exactly when it is the entry of call(fn, key): same
\* registry, same CallLocks, same invocation counts, same outcome of the
\* argument check.
AdapterForwards ==
  [][ncalls' # ncalls =>
       \A t \in Threads : \A k \in Keys : \A f \in Fns :
         CallWrapped(t, k, f) <=> Call(t, k, f)]_vars

\* A call entered (through the adapter as through call) while its key is
\* registered has become a follower of the registered CallLock, and a
\* call entered with a non-callable fn was rejected.
AdapterWitness ==
  \E t1, t2 \in Threads :
    /\ IsFollower(t1) /\ pc[t1] = "f_wait" /\ ran[t1] = 0
    /\ pc[t2] = "done" /\ ret[t2] = FnTypeError

\* C12: the registry holds one CallLock per key (and a CallLock under one
\* key), and per key it moves absent -> pending -> completed -> absent: a
\* CallLock is put under a key only when the key is absent, and it is new
\* and pending; a key is removed only when its CallLock is completed; a
\* completed CallLock stays completed.
RegistryStateMachine ==
  /\ [](\A k1, k2 \in DOMAIN m : m[k1] = m[k2] => k1 = k2)
  /\ [][/\ \A k \in Keys :
            /\ (k \in DOMAIN m' /\ (k \notin DOMAIN m \/ m'[k] # m[k]))
                 => (k \notin DOMAIN m /\ m'[k] \notin CallLocks /\ ~ev'[m'[k]])
            /\ (k \in DOMAIN m /\ k \notin DOMAIN m') => ev[m[k]]
        /\ \A c \in CallLocks : ev[c] => ev'[c]]_vars

\* A key is in its second round: its first CallLock was completed and
\* removed, its second one is completed and still registered.
RegistryWitness ==
  \E t1, t2 \in Threads :
    /\ t1 # t2 /\ key[t1] = key[t2]
    /\ LeaderEnded(t1) /\ cl[t1] < cl[t2]
    /\ pc[t2] = "sleep" /\ ev[cl[t2]]
    /\ KeyInM(key[t2]) /\ m[key[t2]] = cl[t2]

\* C13: the res and err slots of a CallLock change only in the step in
\* which its leader leaves fn, and only while its event is not set; from
\* the moment the event is set both slots keep their values; and no
\* CallLock has both a failure and a result.
OutcomeWrittenOnce ==
  /\ [](\A c \in CallLocks : ~(err[c] # None /\ res[c] # None))
  /\ [][\A c \in CallLocks :
         /\ (res'[c] # res[c] \/ err'[c] # err[c])
              => /\ ~ev[c] /\ ~ev'[c]
                 /\ \E t \in Threads :
                      cl[t] = c /\ pc[t] = "fn_run" /\ pc'[t] = "set"
         /\ ev[c] => (res'[c] = res[c] /\ err'[c] = err[c])]_vars

\* One CallLock was completed with a failure and another with a result,
\* and the leader of the first has already left.
OutcomeWitness ==
  \E c1, c2 \in CallLocks :
    /\ ev[c1] /\ err[c1] \in Errs /\ res[c1] = None /\ ~Registered(c1)
    /\ ev[c2] /\ res[c2] \in Vals /\ err[c2] = None

\* C14: a thread holds the registry lock only between acquiring it and the
\* end of the lookup/insert (lines 60-74) or of the removal (lines 92-93):
\* never while fn runs, during the sleep, while waiting on an event, or
\* after its call has ended.
LockOnlyInCriticalSections ==
  \A t \in Threads : lock = t => pc[t] \in {"lookup", "evict"}

\* One thread holds the lock to remove its CallLock while a second one is
\* inside fn and a third one is blocked on the event of that second one.
LockWitness ==
  \E t1, t2, t3 \in Threads :
    /\ lock = t1 /\ pc[t1] = "evict"
    /\ InFn(t2)
    /\ pc[t3] = "f_wait" /\ w[t3] = cl[t2] /\ ~ev[w[t3]]

\* C15: whenever a follower reads the err or res slot it acts on (lines
\* 68-70), the CallLock it reads from is completed: its event is set.
FollowerReadsCompleted ==
  [][\A t \in Threads :
       (pc[t] \in {"f_err", "f_raise", "f_ret"} /\ pc'[t] # pc[t] /\ KeyInM(key[t]))
         => ev[m[key[t]]]]_vars

\* C16: however fn failed, a leader whose call has ended has stored the
\* outcome in its CallLock, set the event and removed the CallLock from the
\* registry, and its call ended with that outcome.
AnyFailureCaptured ==
  \A t \in Threads :
    (pc[t] = "done" /\ IsLeader(t))
      => (ev[cl[t]] /\ ~Registered(cl[t]) /\ ret[t] = Outcome(cl[t]))

\* C17: a caller whose lookup finds a CallLock c that is already completed
\* (the leader has set the event and not yet removed c) is from then on a
\* follower of c: it never invokes fn, the event it waits on is set, so it
\* does not block, and its call ends with the outcome stored in c.
GraceWindowCoalescing ==
  \A t \in Threads : \A c \in 1..MaxCalls :
    []((pc[t] = "lookup" /\ KeyInM(key[t]) /\ m[key[t]] = c /\ ev[c])
         => [](att[t] = c
                 => /\ ran[t] = 0 /\ ~IsLeader(t)
                    /\ (pc[t] = "f_wait" => ev[w[t]])
                    /\ (pc[t] = "done" => ret[t] = Outcome(c))))

\* C18: the leader's steps come in the order insert, invoke, store, set
\* the event, sleep, remove, return or raise: at each point of its call
\* the CallLock is registered exactly from the insert to the removal, fn
\* has been invoked exactly from the invocation on, the event is set
\* exactly from line 87 on; so the CallLock is not removed before its
\* event is set and the leader's call does not end while it is registered.
LeaderStepOrder ==
  \A t \in Threads :
    IsLeader(t) =>
      /\ pc[t] = "fn_call"
           => (Registered(cl[t]) /\ calls[cl[t]] = 0 /\ ~ev[cl[t]])
      /\ pc[t] \in {"fn_run", "set"}
           => (Registered(cl[t]) /\ calls[cl[t]] = 1 /\ ~ev[cl[t]])
      /\ pc[t] \in {"sleep", "evict_acquire", "evict"}
           => (Registered(cl[t]) /\ calls[cl[t]] = 1 /\ ev[cl[t]])
      /\ pc[t] \in {"l_ret", "done"}
           => (~Registered(cl[t]) /\ calls[cl[t]] = 1 /\ ev[cl[t]])

\* Number of invocations of fn made for the CallLocks 1..n (line 77).
RECURSIVE Invocations(_)
Invocations(n) == IF n = 0 THEN 0 ELSE calls[n] + Invocations(n - 1)

\* C19: no retries.  fn is invoked at most once for a CallLock, and
\* exactly once as soon as its leader is past line 77, whether fn succeeds
\* or fails; the invocations made so far are as many as the CallLocks
\* inserted so far, less those whose leader stands between the insert of
\* line 74 and the invocation of line 77; a CallLock that carries a
\* failure has had one invocation.
NoRetries ==
  /\ \A c \in CallLocks :
       /\ calls[c] <= 1
       /\ calls[c] = 0 <=> \E t \in Threads : cl[t] = c /\ pc[t] = "fn_call"
       /\ err[c] # None => calls[c] = 1
  /\ Invocations(Len(calls))
       + Cardinality({t \in Threads : pc[t] = "fn_call"})
     = Cardinality(CallLocks)

\* One execution has failed and one has succeeded, each completed, and a
\* third one has been inserted.
NoRetriesWitness ==
  \E c1, c2, c3 \in CallLocks :
    /\ ev[c1] /\ err[c1] # None
    /\ ev[c2] /\ res[c2] # None
    /\ c3 \notin {c1, c2}

\* C20: eviction removes the leader's own CallLock and cannot fail.  A
\* leader that has reached the removal of lines 92-93 finds its key in
\* self.m, bound to the CallLock it created, so no leader's call ends
\* with a KeyError; and a key leaves self.m, or changes its CallLock,
\* only by the del of the leader that inserted that CallLock.
EvictsOwnRecord ==
  /\ [](\A t \in Threads :
          /\ pc[t] \in {"evict_acquire", "evict"}
               => (KeyInM(key[t]) /\ m[key[t]] = cl[t])
          /\ (pc[t] = "done" /\ IsLeader(t)) => ret[t] # KeyError)
  /\ [][\A k \in DOMAIN m :
          (k \notin DOMAIN m' \/ m'[k] # m[k])
            => /\ k \notin DOMAIN m'
               /\ \E t \in Threads :
                    /\ cl[t] = m[k] /\ key[t] = k
                    /\ pc[t] = "evict" /\ pc'[t] = "l_ret"]_vars

\* A leader holds the lock at the del of line 93 with its own CallLock
\* registered, a follower of that CallLock is about to read it, and
\* another leader has a CallLock registered under another key.
EvictsOwnWitness ==
  \E t1, t2, t3 \in Threads :
    /\ pc[t1] = "evict" /\ lock = t1 /\ m[key[t1]] = cl[t1]
    /\ att[t2] = cl[t1] /\ pc[t2] = "f_err"
    /\ IsLeader(t3) /\ key[t3] # key[t1] /\ Registered(cl[t3])

====
